---- MODULE Spec2Model ----
(***************************************************************************)
(* Model of oximeter_main.ino: the acquisition state machine, the sliding  *)
(* sample buffer, the buzzer alerts, the LCD throttling and the status LED.*)
(*                                                                         *)
(* The sketch is single threaded: setup() runs once, then loop() runs      *)
(* forever.  One action models setup(), one models a pass of loop() with   *)
(* systemReady false, and one models a whole pass of loop() through the    *)
(* switch, updateStatusLED() and delay(50).  The handlers are operators on *)
(* a record of the sketch's globals, composed in the order loop() calls    *)
(* them.  Time is millis() in milliseconds.  unsigned long differences are *)
(* written as plain subtraction: within MaxTime millis() never wraps and   *)
(* every "last ..." timestamp is at most the current time.                 *)
(***************************************************************************)
EXTENDS Integers, Sequences, FiniteSets

\* ---- program constants -------------------------------------------------
BUFFER_SIZE == 100
FINGER_THRESHOLD == 50000
DISPLAY_UPDATE_INTERVAL == 1000
MEASUREMENT_SAMPLES == 25
ALERT_COOLDOWN == 3000
ERROR_DISPLAY_INTERVAL == 2000
LOOP_DELAY == 50

\* ---- bounds and environment --------------------------------------------
\* loop() is not entered once millis() has reached MaxTime (or the earlier
\* time the environment of the run sets).
MaxTime == 9000

\* The finger is presented after at most MaxIdle passes of loop() in
\* WaitingForFinger that found none; in the run that follows a finger loss,
\* it is presented again after at most LongIdle passes.
MaxIdle == 2
LongIdle == 21

\* Time one blocking poll "while (!available()) check();" takes, per sample:
\* 25 samples and delay(50) make a pass of 500 ms or of 1000 ms.
SampleWaits == {18, 38}

\* Time from one pass of loop() that returns before delay(50) to the next
\* one the model observes (the passes between them do the same).
HaltedPass == {35}

\* The level of the last pair of a run of pairs the SampleSource delivers.
Present == [red |-> 50001, ir |-> 50001]
AtThreshold == [red |-> 50000, ir |-> 50001]
RedLow == [red |-> 49999, ir |-> 50001]
IrLow == [red |-> 50001, ir |-> 49999]
Levels == {Present, AtThreshold, RedLow, IrLow}

\* The next k pairs the SampleSource delivers, in arrival order: a ramp that
\* ends at level p, so that all pairs of a run differ.
Stream(p, k) ==
  [j \in 1..k |-> [red |-> p.red + (k - j), ir |-> p.ir + 2 * (k - j)]]

\* What handleWaitingState() finds: no sample (available() is 0), or a pair.
NoPoll == [avail |-> FALSE, red |-> 0, ir |-> 0]
Polls(levels) ==
  {NoPoll} \cup {[avail |-> TRUE, red |-> l.red, ir |-> l.ir] : l \in levels}

\* Results of maxim_heart_rate_and_oxygen_saturation (vendor algorithm): an
\* invalid value is reported as -999 with its flag 0.
Invalid == [v |-> -999, ok |-> 0]
Valid(x) == [v |-> x, ok |-> 1]
Result(s, h) ==
  [spo2 |-> s.v, validSPO2 |-> s.ok, heartRate |-> h.v, validHeartRate |-> h.ok]
NoEstimate == Result(Invalid, Invalid)
Normal == Result(Valid(97), Valid(72))

\* The environment of a run, fixed when the run begins: the levels the
\* SampleSource presents, the results the estimator reports, the number of
\* passes the finger may stay away, and the time after which loop() is not
\* entered any more.
\*   SignalRun: the signal varies, the estimate is absent or normal.
\*   AlertRun:  the finger stays, the estimate varies over the alert ranges.
\*   AcceptRun: the finger stays, the estimate varies around the acceptance
\*              bounds of handleMeasuringState().
\*   PatternRun: the finger stays, the SpO2 estimate varies around the
\*              bounds of the alert patterns of handleAlerts().
\*   LossRun:   the finger is removed and stays away for more than one
\*              display interval; the estimate is normal.
SignalTime == 6400
AcceptTime == 6000
PatternTime == 6000
LossTime == 7350

SignalRun ==
  [levels |-> Levels, estimates |-> {NoEstimate, Normal},
   idle |-> MaxIdle, until |-> SignalTime]
AlertRun ==
  [levels |-> {Present},
   estimates |-> { Result(s, h) :
                   s \in {Invalid, Valid(70), Valid(85), Valid(97)},
                   h \in {Valid(72), Valid(135)} },
   idle |-> MaxIdle, until |-> MaxTime]
AcceptRun ==
  [levels |-> {Present},
   estimates |-> { Result(s, h) :
                   s \in {Invalid, Valid(70), Valid(71)},
                   h \in {Invalid, Valid(30), Valid(31), Valid(199),
                          Valid(200)} },
   idle |-> MaxIdle, until |-> AcceptTime]
PatternRun ==
  [levels |-> {Present},
   estimates |-> { Result(Valid(s), Valid(72)) : s \in {1, 80, 81, 89, 90} },
   idle |-> MaxIdle, until |-> PatternTime]
LossRun ==
  [levels |-> {Present, IrLow}, estimates |-> {Normal},
   idle |-> LongIdle, until |-> LossTime]
Environments == {SignalRun, AlertRun, AcceptRun, PatternRun, LossRun}

\* ---- state --------------------------------------------------------------
\* The globals of the sketch as the ESP32 build has them (32-bit buffers).
VARIABLES
  currentState, systemReady, fingerDetected,
  redBuffer, irBuffer, bufferLength,
  spo2, validSPO2, heartRate, validHeartRate,
  lastDisplayUpdate, lastAlertTime,
  now,          \* millis()
  buzzerPin, statusLedPin,
  \* what the last pass of setup()/loop() did (observation only)
  op,           \* "none", "setup", "halted" or "tick"
  tickStart,    \* currentState when the pass began
  began,        \* millis() when the pass began
  ledTime,      \* millis() when the pass wrote the status LED, -1 if it did not
  steps,        \* the steps of the pass, in execution order
  changes,      \* the changes of currentState in the pass, <<from, to>>
  renders,      \* LCD screens written in the pass, [screen, t]
  tones,        \* buzzer patterns started in the pass, [kind, t, wave]
  srcRead,      \* pairs read by the last updateDataBuffers()
  oldRed, oldIr,\* the buffers as the last updateDataBuffers() found them
  alertEval,    \* handleAlerts() calls of the pass, [t, last]
  probed,       \* what setup() had to initialize, <<[lcd, sensor]>>
  prev,         \* times of the last events before the pass, -1 if none
  lost,         \* the last change DisplayingResults -> WaitingForFinger, if
                \* the state is still WaitingForFinger: [at, shown], the time
                \* of the change and whether the prompt was rendered since
  captured,     \* the number of pairs captured into the buffers so far
  stamp,        \* for each buffer entry, which capture it holds (the first
                \* pair captured is 1), 0 if none
  session,      \* [at, n]: the pairs captured before the last finger
                \* detection and the number of detections
  acq,          \* the blocking acquisition loop in progress, for the
                \* statement-level specification PollSpec: [pc, fn, i, got,
                \* avail, misses]
  env,          \* the environment of the run
  idle          \* passes in WaitingForFinger since the state was entered

vars == << currentState, systemReady, fingerDetected, redBuffer, irBuffer,
           bufferLength, spo2, validSPO2, heartRate, validHeartRate,
           lastDisplayUpdate, lastAlertTime, now, buzzerPin, statusLedPin,
           op, tickStart, began, ledTime, steps, changes, renders, tones, srcRead,
           oldRed, oldIr, alertEval, probed, prev, lost, captured, stamp, session,
           acq, env, idle >>

ThrottledScreens == {"Prompt", "Measuring", "Measurements"}
Spo2Kinds == {"double", "long"}

\* The globals as one record, with the observation of the pass cleared.
Cur ==
  [ currentState |-> currentState, systemReady |-> systemReady,
    fingerDetected |-> fingerDetected,
    redBuffer |-> redBuffer, irBuffer |-> irBuffer,
    bufferLength |-> bufferLength,
    spo2 |-> spo2, validSPO2 |-> validSPO2,
    heartRate |-> heartRate, validHeartRate |-> validHeartRate,
    lastDisplayUpdate |-> lastDisplayUpdate, lastAlertTime |-> lastAlertTime,
    now |-> now, buzzerPin |-> buzzerPin, statusLedPin |-> statusLedPin,
    steps |-> <<>>, changes |-> <<>>, renders |-> <<>>, tones |-> <<>>,
    alertEval |-> <<>>, probed |-> <<>>, ledTime |-> -1,
    srcRead |-> srcRead, oldRed |-> oldRed, oldIr |-> oldIr,
    captured |-> captured, stamp |-> stamp ]

\* ---- primitives ---------------------------------------------------------
delay(m, ms) == [m EXCEPT !.now = @ + ms]

Step(m, name) == [m EXCEPT !.steps = Append(@, name)]

\* currentState = to
SetState(m, to) ==
  IF m.currentState = to THEN m
  ELSE [m EXCEPT !.currentState = to,
                 !.changes = Append(@, <<m.currentState, to>>)]

\* lcd.clear(); lcd.print(...): one screen written at the current time
lcdWrite(m, screen) ==
  [m EXCEPT !.renders = Append(@, [screen |-> screen, t |-> m.now])]

\* digitalWrite(BUZZER_PIN, HIGH); delay(d); digitalWrite(BUZZER_PIN, LOW)
RECURSIVE WaveLength(_)
WaveLength(w) ==
  IF w = <<>> THEN 0 ELSE Head(w).ms + WaveLength(Tail(w))

Buzz(m, kind, wave) ==
  [m EXCEPT !.tones = Append(@, [kind |-> kind, t |-> m.now, wave |-> wave]),
            !.now = @ + WaveLength(wave),
            !.buzzerPin = wave[Len(wave)].level]

\* maxim_heart_rate_and_oxygen_saturation(..., &spo2, &validSPO2, ...)
Estimate(m, e) ==
  [m EXCEPT !.spo2 = e.spo2, !.validSPO2 = e.validSPO2,
            !.heartRate = e.heartRate, !.validHeartRate = e.validHeartRate]

\* ---- SignalBuffer -------------------------------------------------------
\* C arrays are indexed from 0, sequences from 1: C index i is position i+1.
\* The loops run while the index is below the bound of the loop (and inside
\* the array, which has BUFFER_SIZE entries).

\* Faulty variant of ShiftLoop (C8 fails for it): the shift keeps one entry
\* too many, entry i goes to i - 24.
RECURSIVE ShiftLoop_OffByOne(_, _)
ShiftLoop_OffByOne(m, i) ==
  IF i < BUFFER_SIZE /\ i + 1 \in DOMAIN m.redBuffer
  THEN ShiftLoop_OffByOne(
         [m EXCEPT
            !.redBuffer[i - MEASUREMENT_SAMPLES + 2] = m.redBuffer[i + 1],
            !.irBuffer[i - MEASUREMENT_SAMPLES + 2] = m.irBuffer[i + 1],
            !.stamp[i - MEASUREMENT_SAMPLES + 2] = m.stamp[i + 1]],
         i + 1)
  ELSE m

\* for (byte i = MEASUREMENT_SAMPLES; i < BUFFER_SIZE; i++)
\*   { redBuffer[i - 25] = redBuffer[i]; irBuffer[i - 25] = irBuffer[i]; }
RECURSIVE ShiftLoop(_, _)
ShiftLoop(m, i) ==
  IF i < BUFFER_SIZE /\ i + 1 \in DOMAIN m.redBuffer
  THEN ShiftLoop(
         [m EXCEPT
            !.redBuffer[i - MEASUREMENT_SAMPLES + 1] = m.redBuffer[i + 1],
            !.irBuffer[i - MEASUREMENT_SAMPLES + 1] = m.irBuffer[i + 1],
            !.stamp[i - MEASUREMENT_SAMPLES + 1] = m.stamp[i + 1]],
         i + 1)
  ELSE m

\* for (byte i = BUFFER_SIZE - MEASUREMENT_SAMPLES; i < BUFFER_SIZE; i++)
\*   { while (!available()) check(); redBuffer[i] = getRed();
\*     irBuffer[i] = getIR(); nextSample(); }
\* in is the pairs the SampleSource delivers to this call, w the wait per pair;
\* srcRead is the pairs read so far.
RECURSIVE AppendLoop(_, _, _, _)
AppendLoop(m, in, w, i) ==
  IF i < BUFFER_SIZE /\ i + 1 \in DOMAIN m.redBuffer
  THEN AppendLoop(
         [m EXCEPT !.now = @ + w,
                   !.redBuffer[i + 1] = in[Len(m.srcRead) + 1].red,
                   !.irBuffer[i + 1] = in[Len(m.srcRead) + 1].ir,
                   !.captured = @ + 1,
                   !.stamp[i + 1] = m.captured + 1,
                   !.srcRead = Append(@, in[Len(m.srcRead) + 1])],
         in, w, i + 1)
  ELSE m

updateDataBuffers(m, p, w) ==
  LET m0 == [m EXCEPT !.oldRed = m.redBuffer, !.oldIr = m.irBuffer,
                      !.srcRead = <<>>]
      m1 == ShiftLoop(m0, MEASUREMENT_SAMPLES)
  IN  AppendLoop(m1, Stream(p, MEASUREMENT_SAMPLES), w,
                 BUFFER_SIZE - MEASUREMENT_SAMPLES)

\* for (byte i = 0; i < bufferLength; i++)
\*   { while (!available()) check(); redBuffer[i] = getRed();
\*     irBuffer[i] = getIR(); nextSample();
\*     if (i % 20 == 0) { lcd.clear(); ... "Collecting..." "Progress: " } }
RECURSIVE CollectLoop(_, _, _, _)
CollectLoop(m, in, w, i) ==
  IF i < m.bufferLength
  THEN LET m1 == [m EXCEPT !.now = @ + w,
                           !.redBuffer[i + 1] = in[i + 1].red,
                           !.irBuffer[i + 1] = in[i + 1].ir,
                           !.captured = @ + 1,
                           !.stamp[i + 1] = m.captured + 1]
           m2 == IF i % 20 = 0 THEN lcdWrite(m1, "Progress") ELSE m1
       IN  CollectLoop(m2, in, w, i + 1)
  ELSE m

\* Faulty variant of collectInitialData (C18 fails for it): only the entries
\* from MEASUREMENT_SAMPLES on are filled.
collectInitialData_Partial(m, p, w, e) ==
  LET m0 == [m EXCEPT !.bufferLength = BUFFER_SIZE]
      m1 == CollectLoop(m0, Stream(p, BUFFER_SIZE), w, MEASUREMENT_SAMPLES)
  IN  Estimate(m1, e)

collectInitialData(m, p, w, e) ==
  LET m0 == [m EXCEPT !.bufferLength = BUFFER_SIZE]
      m1 == CollectLoop(m0, Stream(p, BUFFER_SIZE), w, 0)
  IN  Estimate(m1, e)

\* ---- AlertManager ---------------------------------------------------------
DoubleTone == << [level |-> 1, ms |-> 200], [level |-> 0, ms |-> 300],
                 [level |-> 1, ms |-> 200], [level |-> 0, ms |-> 0] >>
LongTone == << [level |-> 1, ms |-> 1000], [level |-> 0, ms |-> 0] >>

\* Faulty variant of ShortTone (C20 fails for it): the pin is not set LOW
\* after the tone.
ShortTone_Stuck == << [level |-> 1, ms |-> 100] >>

ShortTone == << [level |-> 1, ms |-> 100], [level |-> 0, ms |-> 0] >>

\* Faulty variant of Spo2Alert (C15 fails for it): the bound between the two
\* patterns is taken from the wrong side, spo2 = 80 sounds the double tone.
Spo2Alert_Bound80(m, currentTime) ==
  IF m.spo2 < 90 /\ m.spo2 >= 80
  THEN [Buzz(m, "double", DoubleTone) EXCEPT !.lastAlertTime = currentTime]
  ELSE IF m.spo2 < 80 /\ m.spo2 > 0
  THEN [Buzz(m, "long", LongTone) EXCEPT !.lastAlertTime = currentTime]
  ELSE m

\* Faulty variant of Spo2Alert (C2 fails for it): the long tone does not
\* record its start in lastAlertTime.
Spo2Alert_NoStamp(m, currentTime) ==
  IF m.spo2 < 90 /\ m.spo2 > 80
  THEN [Buzz(m, "double", DoubleTone) EXCEPT !.lastAlertTime = currentTime]
  ELSE IF m.spo2 <= 80 /\ m.spo2 > 0
  THEN Buzz(m, "long", LongTone)
  ELSE m

\* lines 385-402: the SpO2 pattern; currentTime was read before the pattern
Spo2Alert(m, currentTime) ==
  IF m.spo2 < 90 /\ m.spo2 > 80
  THEN [Buzz(m, "double", DoubleTone) EXCEPT !.lastAlertTime = currentTime]
  ELSE IF m.spo2 <= 80 /\ m.spo2 > 0
  THEN [Buzz(m, "long", LongTone) EXCEPT !.lastAlertTime = currentTime]
  ELSE m

\* lines 404-409: the heart-rate tone
HeartRateAlert(m) ==
  IF m.validHeartRate # 0 /\ (m.heartRate > 120 \/ m.heartRate < 50)
  THEN Buzz(m, "hr", ShortTone)
  ELSE m

\* Faulty variant of handleAlerts (C3 fails for it): the heart-rate tone is
\* evaluated before the cooldown is.
handleAlerts_HrUngated(m) ==
  LET currentTime == m.now
      m0 == [m EXCEPT !.alertEval =
               Append(@, [t |-> currentTime, last |-> m.lastAlertTime])]
  IN  IF m.validSPO2 = 0 \/ ~m.fingerDetected THEN m0
      ELSE IF currentTime - m.lastAlertTime < ALERT_COOLDOWN
      THEN HeartRateAlert(m0)
      ELSE HeartRateAlert(Spo2Alert(m0, currentTime))

\* Faulty variant of handleAlerts (C14 fails for it): the test of validSPO2
\* and fingerDetected is missing.
handleAlerts_Ungated(m) ==
  LET currentTime == m.now
      m0 == [m EXCEPT !.alertEval =
               Append(@, [t |-> currentTime, last |-> m.lastAlertTime])]
  IN  IF currentTime - m.lastAlertTime < ALERT_COOLDOWN THEN m0
      ELSE HeartRateAlert(Spo2Alert(m0, currentTime))

handleAlerts(m) ==
  LET currentTime == m.now
      m0 == [m EXCEPT !.alertEval =
               Append(@, [t |-> currentTime, last |-> m.lastAlertTime])]
  IN  IF m.validSPO2 = 0 \/ ~m.fingerDetected THEN m0
      ELSE IF currentTime - m.lastAlertTime < ALERT_COOLDOWN THEN m0
      ELSE HeartRateAlert(Spo2Alert(m0, currentTime))

\* ---- DisplayThrottler ---------------------------------------------------
\* Faulty variant of ThrottledWrite (C5 fails for it): the time of the
\* render is not recorded in lastDisplayUpdate.
ThrottledWrite_NoStamp(m, screen, interval) ==
  IF m.now - m.lastDisplayUpdate > interval
  THEN lcdWrite(m, screen)
  ELSE m

\* if (millis() - lastDisplayUpdate > interval) { <screen>; lastDisplayUpdate = millis(); }
ThrottledWrite(m, screen, interval) ==
  IF m.now - m.lastDisplayUpdate > interval
  THEN [lcdWrite(m, screen) EXCEPT !.lastDisplayUpdate = m.now]
  ELSE m

\* ---- StatusIndicator ----------------------------------------------------
updateStatusLED(m) ==
  LET level ==
        CASE m.currentState = "WAITING_FINGER" ->
               IF (m.now % 1000) < 500 THEN 1 ELSE 0
          [] m.currentState = "MEASURING" ->
               IF (m.now % 200) < 100 THEN 1 ELSE 0
          [] m.currentState = "DISPLAYING_RESULTS" -> 1
          [] m.currentState = "ERROR" ->
               IF (m.now % 100) < 50 THEN 1 ELSE 0
          [] OTHER -> m.statusLedPin
  IN  Step([m EXCEPT !.statusLedPin = level, !.ledTime = m.now], "status")

\* ---- AcquisitionStateMachine: the handlers -----------------------------
\* irBuffer[BUFFER_SIZE-1] < FINGER_THRESHOLD || redBuffer[BUFFER_SIZE-1] < FINGER_THRESHOLD
FingerRemoved(m) ==
  \/ m.irBuffer[BUFFER_SIZE] < FINGER_THRESHOLD
  \/ m.redBuffer[BUFFER_SIZE] < FINGER_THRESHOLD

\* Faulty variant of ResultAccepted (C10 fails for it): spo2 = 70 is accepted.
ResultAccepted_Inclusive(m) ==
  /\ m.validSPO2 # 0 /\ m.validHeartRate # 0
  /\ m.spo2 >= 70 /\ m.heartRate > 30 /\ m.heartRate < 200

\* validSPO2 && validHeartRate && spo2 > 70 && heartRate > 30 && heartRate < 200
ResultAccepted(m) ==
  /\ m.validSPO2 # 0 /\ m.validHeartRate # 0
  /\ m.spo2 > 70 /\ m.heartRate > 30 /\ m.heartRate < 200

\* c.avail: particleSensor.available(); c: the pair getIR()/getRed() return;
\* p, w, e: what collectInitialData() reads, waits for and computes.
handleWaitingState(m, c, p, w, e) ==
  IF c.avail /\ c.ir > FINGER_THRESHOLD /\ c.red > FINGER_THRESHOLD
  THEN LET m1 == SetState([m EXCEPT !.fingerDetected = TRUE], "MEASURING")
           m2 == lcdWrite(m1, "FingerDetected")
       IN  collectInitialData(m2, p, w, e)
  ELSE ThrottledWrite(m, "Prompt", DISPLAY_UPDATE_INTERVAL)

\* Faulty variant of handleMeasuringState (C19 fails for it): the alerts are
\* handled in Measuring as they are in DisplayingResults.
handleMeasuringState_Alerts(m, p, w, e) ==
  LET m1 == Step(updateDataBuffers(m, p, w), "refresh")
      m2 == Step(Estimate(m1, e), "estimate")
      m3 == Step(m2, "transition")
  IN  IF FingerRemoved(m3)
      THEN SetState([m3 EXCEPT !.fingerDetected = FALSE], "WAITING_FINGER")
      ELSE LET m4 == IF ResultAccepted(m3)
                     THEN SetState(m3, "DISPLAYING_RESULTS") ELSE m3
               m5 == ThrottledWrite(Step(m4, "display"), "Measuring",
                                    DISPLAY_UPDATE_INTERVAL)
           IN  handleAlerts(Step(m5, "alert"))

handleMeasuringState(m, p, w, e) ==
  LET m1 == Step(updateDataBuffers(m, p, w), "refresh")
      m2 == Step(Estimate(m1, e), "estimate")
      m3 == Step(m2, "transition")
  IN  IF FingerRemoved(m3)
      THEN SetState([m3 EXCEPT !.fingerDetected = FALSE], "WAITING_FINGER")
      ELSE LET m4 == IF ResultAccepted(m3)
                     THEN SetState(m3, "DISPLAYING_RESULTS") ELSE m3
           IN  ThrottledWrite(Step(m4, "display"), "Measuring",
                              DISPLAY_UPDATE_INTERVAL)

\* Faulty variant of handleDisplayState (C7 fails for it): the alerts are
\* handled before the display is updated.
handleDisplayState_AlertFirst(m, p, w, e) ==
  LET m1 == Step(updateDataBuffers(m, p, w), "refresh")
      m2 == Step(Estimate(m1, e), "estimate")
      m3 == Step(m2, "transition")
  IN  IF FingerRemoved(m3)
      THEN SetState([m3 EXCEPT !.fingerDetected = FALSE], "WAITING_FINGER")
      ELSE LET m4 == handleAlerts(Step(m3, "alert"))
           IN  ThrottledWrite(Step(m4, "display"), "Measurements",
                              DISPLAY_UPDATE_INTERVAL)

\* Faulty variant of handleDisplayState (C9 fails for it): a result that is
\* not accepted sends the state back to Measuring.
handleDisplayState_Remeasure(m, p, w, e) ==
  LET m1 == Step(updateDataBuffers(m, p, w), "refresh")
      m2 == Step(Estimate(m1, e), "estimate")
      m3 == Step(m2, "transition")
  IN  IF FingerRemoved(m3)
      THEN SetState([m3 EXCEPT !.fingerDetected = FALSE], "WAITING_FINGER")
      ELSE LET m4 == IF ResultAccepted(m3)
                     THEN m3 ELSE SetState(m3, "MEASURING")
               m5 == ThrottledWrite(Step(m4, "display"), "Measurements",
                                    DISPLAY_UPDATE_INTERVAL)
           IN  handleAlerts(Step(m5, "alert"))

\* Faulty variant of handleDisplayState (C16 fails for it): a finger loss
\* restarts the display interval.
handleDisplayState_LossStamp(m, p, w, e) ==
  LET m1 == Step(updateDataBuffers(m, p, w), "refresh")
      m2 == Step(Estimate(m1, e), "estimate")
      m3 == Step(m2, "transition")
  IN  IF FingerRemoved(m3)
      THEN SetState([m3 EXCEPT !.fingerDetected = FALSE,
                               !.lastDisplayUpdate = m3.now], "WAITING_FINGER")
      ELSE LET m4 == ThrottledWrite(Step(m3, "display"), "Measurements",
                                    DISPLAY_UPDATE_INTERVAL)
           IN  handleAlerts(Step(m4, "alert"))

handleDisplayState(m, p, w, e) ==
  LET m1 == Step(updateDataBuffers(m, p, w), "refresh")
      m2 == Step(Estimate(m1, e), "estimate")
      m3 == Step(m2, "transition")
  IN  IF FingerRemoved(m3)
      THEN SetState([m3 EXCEPT !.fingerDetected = FALSE], "WAITING_FINGER")
      ELSE LET m4 == ThrottledWrite(Step(m3, "display"), "Measurements",
                                    DISPLAY_UPDATE_INTERVAL)
           IN  handleAlerts(Step(m4, "alert"))

handleErrorState(m) ==
  ThrottledWrite(m, "Error", ERROR_DISPLAY_INTERVAL)

\* ---- setup() and loop() -------------------------------------------------
\* The time of the last element of log whose field f is in S, else dflt.
RECURSIVE LastTime(_, _, _, _)
LastTime(log, kinds, screens, dflt) ==
  IF log = <<>> THEN dflt
  ELSE LET x == log[Len(log)] IN
       IF \/ ("kind" \in DOMAIN x /\ x.kind \in kinds)
          \/ ("screen" \in DOMAIN x /\ x.screen \in screens)
       THEN x.t
       ELSE LastTime(SubSeq(log, 1, Len(log) - 1), kinds, screens, dflt)

Range(f) == {f[i] : i \in DOMAIN f}
Screens(log, screens) == SelectSeq(log, LAMBDA x : x.screen \in screens)

AllKinds == {"double", "long", "hr"}
AllScreens == {"Startup", "Ready", "Error", "Prompt", "FingerDetected",
               "Progress", "Measuring", "Measurements"}

\* The times of the last events up to the end of the pass just observed.
Latest ==
  [ spo2 |-> LastTime(tones, Spo2Kinds, {}, prev.spo2),
    tone |-> LastTime(tones, AllKinds, {}, prev.tone),
    render |-> LastTime(renders, {}, AllScreens, prev.render),
    throttled |-> LastTime(renders, {}, ThrottledScreens, prev.throttled) ]

NoLoss == [at |-> -1, shown |-> FALSE]

\* lost after a pass that ends as m: the handler that changes the state
\* returns at once, so the time of the change is the time the LED is written.
Lost(m) ==
  IF <<"DISPLAYING_RESULTS", "WAITING_FINGER">> \in Range(m.changes)
  THEN [at |-> m.ledTime, shown |-> FALSE]
  ELSE IF m.currentState # "WAITING_FINGER" \/ lost.shown THEN NoLoss
  ELSE IF lost.at # -1 /\ Screens(m.renders, {"Prompt"}) # <<>>
  THEN [lost EXCEPT !.shown = TRUE]
  ELSE lost

Commit(m, name) ==
  /\ currentState' = m.currentState
  /\ systemReady' = m.systemReady
  /\ fingerDetected' = m.fingerDetected
  /\ redBuffer' = m.redBuffer
  /\ irBuffer' = m.irBuffer
  /\ bufferLength' = m.bufferLength
  /\ spo2' = m.spo2
  /\ validSPO2' = m.validSPO2
  /\ heartRate' = m.heartRate
  /\ validHeartRate' = m.validHeartRate
  /\ lastDisplayUpdate' = m.lastDisplayUpdate
  /\ lastAlertTime' = m.lastAlertTime
  /\ now' = m.now
  /\ buzzerPin' = m.buzzerPin
  /\ statusLedPin' = m.statusLedPin
  /\ op' = name
  /\ tickStart' = currentState
  /\ began' = now
  /\ ledTime' = m.ledTime
  /\ steps' = m.steps
  /\ changes' = m.changes
  /\ renders' = m.renders
  /\ tones' = m.tones
  /\ srcRead' = m.srcRead
  /\ oldRed' = m.oldRed
  /\ oldIr' = m.oldIr
  /\ alertEval' = m.alertEval
  /\ probed' = m.probed
  /\ prev' = Latest
  /\ lost' = Lost(m)
  /\ captured' = m.captured
  /\ stamp' = m.stamp
  /\ session' = IF <<"WAITING_FINGER", "MEASURING">> \in Range(m.changes)
                THEN [at |-> captured, n |-> session.n + 1]
                ELSE session
  /\ acq' = acq
  /\ env' = env
  /\ idle' = IF currentState = "WAITING_FINGER" /\ m.currentState = currentState
             THEN idle + 1 ELSE 0

Zeros == [i \in 1..BUFFER_SIZE |-> 0]

NoStamps == [i \in 1..BUFFER_SIZE |-> 0]
NoSession == [at |-> 0, n |-> 0]

AcqIdle ==
  [pc |-> "idle", fn |-> "none", i |-> 0, got |-> 0, avail |-> FALSE,
   misses |-> 0]

Init ==
  /\ currentState = "INITIALIZING"
  /\ systemReady = FALSE
  /\ fingerDetected = FALSE
  /\ redBuffer = Zeros
  /\ irBuffer = Zeros
  /\ bufferLength = 0
  /\ spo2 = 0
  /\ validSPO2 = 0
  /\ heartRate = 0
  /\ validHeartRate = 0
  /\ lastDisplayUpdate = 0
  /\ lastAlertTime = 0
  /\ now = 0
  /\ buzzerPin = 0
  /\ statusLedPin = 0
  /\ op = "none"
  /\ tickStart = "INITIALIZING"
  /\ began = 0
  /\ ledTime = -1
  /\ steps = <<>>
  /\ changes = <<>>
  /\ renders = <<>>
  /\ tones = <<>>
  /\ srcRead = <<>>
  /\ oldRed = Zeros
  /\ oldIr = Zeros
  /\ alertEval = <<>>
  /\ probed = <<>>
  /\ prev = [spo2 |-> -1, tone |-> -1, render |-> -1, throttled |-> -1]
  /\ lost = NoLoss
  /\ captured = 0
  /\ stamp = NoStamps
  /\ session = NoSession
  /\ acq = AcqIdle
  /\ env \in Environments
  /\ idle = 0

\* lcd.init(); ... "Pulse Oximeter" "Initializing..."; delay(2000); return true;
\* lcdFound: the display answers on the I2C bus.  lcd.init() returns nothing
\* and the function returns true whatever the display does.
initializeLCD(m, lcdFound) ==
  [m |-> delay(lcdWrite(m, "Startup"), 2000), ok |-> TRUE]

\* sensorFound: particleSensor.begin(Wire, I2C_SPEED_FAST)
initializeSensor(m, sensorFound) ==
  [m |-> m, ok |-> sensorFound]

displayStartupComplete(m) == delay(lcdWrite(m, "Ready"), 1500)

displayError(m) == lcdWrite(m, "Error")

setup(m, lcdFound, sensorFound) ==
  LET m0 == [m EXCEPT !.buzzerPin = 0,
                      !.probed = << [lcd |-> lcdFound, sensor |-> sensorFound] >>]
      lcd == initializeLCD(m0, lcdFound)
      sen == initializeSensor(lcd.m, sensorFound)
  IN  IF ~lcd.ok THEN SetState(lcd.m, "ERROR")
      ELSE IF ~sen.ok THEN SetState(displayError(sen.m), "ERROR")
      ELSE [SetState(displayStartupComplete(sen.m), "WAITING_FINGER")
              EXCEPT !.systemReady = TRUE]

Setup ==
  /\ op = "none"
  /\ \E lcdFound \in BOOLEAN, sensorFound \in BOOLEAN :
       Commit(setup(Cur, lcdFound, sensorFound), "setup")

\* loop() with systemReady false: the LED is written and loop() returns
loopNotReady(m, d) ==
  delay([m EXCEPT !.statusLedPin = IF m.now % 500 < 250 THEN 1 ELSE 0,
                  !.ledTime = m.now], d)

LoopNotReady ==
  /\ op # "none"
  /\ ~systemReady
  /\ now < env.until
  /\ \E d \in HaltedPass : Commit(loopNotReady(Cur, d), "halted")

\* loop() with systemReady true: the switch, updateStatusLED(), delay(50)
loop(m, c, p, w, e) ==
  LET m1 == CASE m.currentState = "WAITING_FINGER" ->
                   handleWaitingState(m, c, p, w, e)
              [] m.currentState = "MEASURING" ->
                   handleMeasuringState(m, p, w, e)
              [] m.currentState = "DISPLAYING_RESULTS" ->
                   handleDisplayState(m, p, w, e)
              [] m.currentState = "ERROR" -> handleErrorState(m)
              [] OTHER -> m
  IN  delay(updateStatusLED(m1), LOOP_DELAY)

Loop ==
  /\ op # "none"
  /\ systemReady
  /\ now < env.until
  /\ \E c \in IF currentState = "WAITING_FINGER"
               THEN Polls(env.levels) ELSE {NoPoll},
        p \in env.levels, w \in SampleWaits, e \in env.estimates :
       /\ Commit(loop(Cur, c, p, w, e), "tick")
       /\ idle' <= (IF session.n = 0 THEN MaxIdle ELSE env.idle)

Next == Setup \/ LoopNotReady \/ Loop

Spec == Init /\ [][Next]_vars

\* ---- the blocking loops of collectInitialData() and updateDataBuffers(),
\* ---- statement by statement ----------------------------------------------
\* PollSpec runs the two functions one statement at a time, in the state
\* handleWaitingState() first calls collectInitialData() in.  acq.pc is the
\* position ("loop": at the test of the for loop), acq.fn the function,
\* acq.i the byte loop index, acq.got the pairs captured by the call,
\* acq.avail what particleSensor.available() returns, acq.misses the calls
\* of check() since the last pair that found no new sample.

\* check() finds no new sample at most MaxMisses times in a row.
MaxMisses == 2

\* byte i: values 0..255
ByteRange == 256

\* The k-th pair the SampleSource delivers to a call (k from 1).
AcqPair(k) == Stream(Present, ByteRange)[k]

\* The number of pairs the call has to capture.
AcqWanted(fn) == IF fn = "fill" THEN BUFFER_SIZE ELSE MEASUREMENT_SAMPLES

\* Faulty variant of AcqMore (C17 fails for it): the loops run once more.
AcqMore_Inclusive ==
  acq.i <= (IF acq.fn = "fill" THEN bufferLength ELSE BUFFER_SIZE)

\* i < bufferLength (collectInitialData), i < BUFFER_SIZE (updateDataBuffers)
AcqMore ==
  acq.i < (IF acq.fn = "fill" THEN bufferLength ELSE BUFFER_SIZE)

pollKept ==
  << currentState, systemReady, fingerDetected, lastDisplayUpdate,
     lastAlertTime, now, buzzerPin, statusLedPin, op, tickStart, began,
     ledTime, steps, changes, tones, srcRead, oldRed, oldIr, alertEval,
     probed, prev, lost, captured, stamp, session, env, idle >>

estimateKept == << spo2, validSPO2, heartRate, validHeartRate >>

PollInit ==
  /\ currentState = "MEASURING"
  /\ systemReady = TRUE
  /\ fingerDetected = TRUE
  /\ redBuffer = Zeros
  /\ irBuffer = Zeros
  /\ bufferLength = 0
  /\ spo2 = 0
  /\ validSPO2 = 0
  /\ heartRate = 0
  /\ validHeartRate = 0
  /\ lastDisplayUpdate = 0
  /\ lastAlertTime = 0
  /\ now = 3500
  /\ buzzerPin = 0
  /\ statusLedPin = 0
  /\ op = "setup"
  /\ tickStart = "WAITING_FINGER"
  /\ began = 3500
  /\ ledTime = -1
  /\ steps = <<>>
  /\ changes = <<>>
  /\ renders = <<>>
  /\ tones = <<>>
  /\ srcRead = <<>>
  /\ oldRed = Zeros
  /\ oldIr = Zeros
  /\ alertEval = <<>>
  /\ probed = <<>>
  /\ prev = [spo2 |-> -1, tone |-> -1, render |-> -1, throttled |-> -1]
  /\ lost = NoLoss
  /\ captured = 0
  /\ stamp = NoStamps
  /\ session = [at |-> 0, n |-> 1]
  /\ acq \in {[AcqIdle EXCEPT !.avail = a] : a \in BOOLEAN}
  /\ env = SignalRun
  /\ idle = 0

\* collectInitialData() is entered: bufferLength = BUFFER_SIZE; i = 0
AcqEnterFill ==
  /\ acq.pc \in {"idle", "done"}
  /\ bufferLength' = BUFFER_SIZE
  /\ acq' = [acq EXCEPT !.pc = "loop", !.fn = "fill", !.i = 0, !.got = 0,
                        !.misses = 0]
  /\ renders' = <<>>
  /\ UNCHANGED << redBuffer, irBuffer, estimateKept, pollKept >>

\* updateDataBuffers() is entered in a later pass: the first loop shifts the
\* buffers; i = BUFFER_SIZE - MEASUREMENT_SAMPLES
AcqEnterSlide ==
  /\ acq.pc = "done"
  /\ LET m == ShiftLoop(Cur, MEASUREMENT_SAMPLES) IN
       /\ redBuffer' = m.redBuffer
       /\ irBuffer' = m.irBuffer
  /\ acq' = [acq EXCEPT !.pc = "loop", !.fn = "slide",
                        !.i = BUFFER_SIZE - MEASUREMENT_SAMPLES, !.got = 0,
                        !.misses = 0]
  /\ renders' = <<>>
  /\ UNCHANGED << bufferLength, estimateKept, pollKept >>

\* while (!available()) check();  -- check() finds no new sample
AcqMiss ==
  /\ acq.pc = "loop" /\ AcqMore /\ ~acq.avail
  /\ acq.misses < MaxMisses
  /\ acq' = [acq EXCEPT !.misses = @ + 1]
  /\ UNCHANGED << redBuffer, irBuffer, bufferLength, renders, estimateKept,
                  pollKept >>

\* while (!available()) check();  -- check() finds a new sample
AcqAvailable ==
  /\ acq.pc = "loop" /\ AcqMore /\ ~acq.avail
  /\ acq' = [acq EXCEPT !.avail = TRUE]
  /\ UNCHANGED << redBuffer, irBuffer, bufferLength, renders, estimateKept,
                  pollKept >>

\* redBuffer[i] = getRed(); irBuffer[i] = getIR(); nextSample(); the
\* progress screen of collectInitialData(); i++
AcqRead ==
  /\ acq.pc = "loop" /\ AcqMore /\ acq.avail
  /\ LET pair == AcqPair(acq.got + 1) IN
       /\ redBuffer' = [redBuffer EXCEPT ![acq.i + 1] = pair.red]
       /\ irBuffer' = [irBuffer EXCEPT ![acq.i + 1] = pair.ir]
  /\ \E more \in BOOLEAN :
       acq' = [acq EXCEPT !.i = (@ + 1) % ByteRange, !.got = @ + 1,
                          !.avail = more, !.misses = 0]
  /\ renders' = IF acq.fn = "fill" /\ acq.i % 20 = 0
                THEN Append(renders, [screen |-> "Progress", t |-> now])
                ELSE renders
  /\ UNCHANGED << bufferLength, estimateKept, pollKept >>

\* the loop test fails: collectInitialData() calls the estimator and
\* returns, updateDataBuffers() returns
AcqReturn ==
  /\ acq.pc = "loop" /\ ~AcqMore
  /\ acq' = [acq EXCEPT !.pc = "done"]
  /\ IF acq.fn = "fill"
     THEN \E e \in env.estimates :
            /\ spo2' = e.spo2 /\ validSPO2' = e.validSPO2
            /\ heartRate' = e.heartRate /\ validHeartRate' = e.validHeartRate
     ELSE UNCHANGED estimateKept
  /\ UNCHANGED << redBuffer, irBuffer, bufferLength, renders, pollKept >>

PollNext ==
  \/ AcqEnterFill \/ AcqEnterSlide
  \/ AcqMiss \/ AcqAvailable \/ AcqRead \/ AcqReturn

\* The processor goes on to the next statement (AcqRead, AcqReturn), and the
\* SampleSource reports a sample available after every advance
\* (AcqAvailable).
PollSpec ==
  /\ PollInit /\ [][PollNext]_vars
  /\ WF_vars(AcqAvailable) /\ WF_vars(AcqRead) /\ WF_vars(AcqReturn)

\* ---- properties ---------------------------------------------------------
Sensing == {"MEASURING", "DISPLAYING_RESULTS"}

\* The last pass was a pass of loop() through the switch that began in S.
TickFrom(S) == op = "tick" /\ tickStart \in S

\* The times of a log, after the time before of the last earlier event.
Times(before, log) ==
  (IF before = -1 THEN <<>> ELSE <<before>>) \o [i \in 1..Len(log) |-> log[i].t]

\* Successive elements of the sequence of times ts are at least d apart.
Apart(ts, d) == \A i \in 1..(Len(ts) - 1) : ts[i + 1] - ts[i] >= d

Only(log, kinds) == SelectSeq(log, LAMBDA x : x.kind \in kinds)

RECURSIVE IsSubSeq(_, _)
IsSubSeq(a, b) ==
  IF a = <<>> THEN TRUE
  ELSE IF b = <<>> THEN FALSE
  ELSE IF Head(a) = Head(b) THEN IsSubSeq(Tail(a), Tail(b))
  ELSE IsSubSeq(a, Tail(b))

HrOutOfRange == validHeartRate # 0 /\ (heartRate > 120 \/ heartRate < 50)
HrToneEmitted == \E i \in 1..Len(tones) : tones[i].kind = "hr"

\* C1: after a pass that began in Measuring or DisplayingResults, if the
\* newest buffer entry has red <= FINGER_THRESHOLD or infrared <=
\* FINGER_THRESHOLD, the state is WaitingForFinger.
C1_FingerLoss ==
  ( /\ TickFrom(Sensing)
    /\ \/ redBuffer[BUFFER_SIZE] <= FINGER_THRESHOLD
       \/ irBuffer[BUFFER_SIZE] <= FINGER_THRESHOLD )
  => currentState = "WAITING_FINGER"

\* C2: the start of every SpO2 alert pattern (double tone or long tone) is at
\* least 3000 ms after the start of the previous SpO2 alert pattern.
C2_Spo2Cooldown ==
  Apart(Times(prev.spo2, Only(tones, Spo2Kinds)), ALERT_COOLDOWN)

C2_Witness ==
  /\ prev.spo2 # -1
  /\ Only(tones, Spo2Kinds) # <<>>

\* C3 as claimed: in every alert evaluation with spo2Valid and a finger
\* detected, an out-of-range valid heart rate sounds the 100 ms tone, also
\* within 3000 ms of the start of an SpO2 pattern.
C3_HrToneAlways ==
  (alertEval # <<>> /\ validSPO2 # 0 /\ fingerDetected /\ HrOutOfRange)
  => HrToneEmitted

\* C3 as amended: in every alert evaluation with spo2Valid and a finger
\* detected, an out-of-range valid heart rate sounds the single 100 ms tone
\* exactly when at least 3000 ms have passed since the start of the last SpO2
\* pattern, whichever SpO2 pattern sounds in the same evaluation.
C3_HrToneAfterCooldown ==
  (alertEval # <<>> /\ validSPO2 # 0 /\ fingerDetected /\ HrOutOfRange)
  => /\ HrToneEmitted
        <=> (prev.spo2 = -1 \/ alertEval[1].t - prev.spo2 >= ALERT_COOLDOWN)
     /\ Len(Only(tones, {"hr"})) <= 1
     /\ \A i \in 1..Len(tones) :
          tones[i].kind = "hr" => tones[i].wave = ShortTone

C3_Witness ==
  /\ alertEval # <<>> /\ validSPO2 # 0 /\ fingerDetected /\ HrOutOfRange
  /\ prev.spo2 # -1
  /\ Len(tones) = 2
  /\ tones[1].kind \in Spo2Kinds
  /\ tones[2].kind = "hr"

\* C4: no alert pattern of any kind starts within 3000 ms of the start of
\* the previous alert pattern.
C4_GlobalDebounce ==
  Apart(Times(prev.tone, tones), ALERT_COOLDOWN)

\* C5 as claimed: in the non-error states every write to the display,
\* including those made while the buffer is filled, comes at least 1000 ms
\* after the previous one.
C5_AllRendersThrottled ==
  op = "tick" => Apart(Times(prev.render, renders), DISPLAY_UPDATE_INTERVAL)

\* C5 as amended: the prompt, the "Measuring..." screen and the measurements
\* are rendered only if at least 1000 ms have elapsed since the previous
\* render of one of them; the "Finger detected" banner and the progress
\* screens of the buffer fill are not counted.
C5_StateScreensThrottled ==
  op = "tick" =>
    Apart(Times(prev.throttled, Screens(renders, ThrottledScreens)),
          DISPLAY_UPDATE_INTERVAL)

C5_Witness ==
  /\ TickFrom(Sensing)
  /\ prev.throttled # -1
  /\ Screens(renders, ThrottledScreens) # <<>>

\* C6: in a pass that moves Measuring -> DisplayingResults the display never
\* renders the "Measuring..." screen; any render shows the measurements.
C6_RenderNewState ==
  (op = "tick" /\ changes = << <<"MEASURING", "DISPLAYING_RESULTS">> >>)
  => \A i \in 1..Len(renders) : renders[i].screen = "Measurements"

\* C7 as claimed: the steps of a pass in Measuring or DisplayingResults run
\* in the order refresh, estimate, transition, alert, display, status.
C7_AlertBeforeDisplay ==
  TickFrom(Sensing) =>
    IsSubSeq(steps, <<"refresh", "estimate", "transition", "alert",
                      "display", "status">>)

\* C7 as amended: the steps run in the order refresh, estimate, transition,
\* display, alert, status; the display render of a pass precedes the alert
\* evaluation of that pass.
C7_DisplayBeforeAlert ==
  TickFrom(Sensing) =>
    /\ IsSubSeq(steps, <<"refresh", "estimate", "transition", "display",
                         "alert", "status">>)
    /\ IsSubSeq(<<"refresh", "estimate", "transition", "status">>, steps)
    /\ \A i \in 1..Len(renders), j \in 1..Len(alertEval) :
         renders[i].t <= alertEval[j].t

C7_Witness ==
  /\ TickFrom(Sensing)
  /\ steps = <<"refresh", "estimate", "transition", "display", "alert",
               "status">>
  /\ renders # <<>>
  /\ tones # <<>>

\* C8: after updateDataBuffers() entries 0..N-26 of both channels are the
\* previous entries 25..N-1 in order, entries N-25..N-1 are the 25 pairs
\* read from the SampleSource in arrival order, and the length is N = 100.
C8_SlideRefresh ==
  TickFrom(Sensing) =>
    /\ Len(redBuffer) = BUFFER_SIZE
    /\ Len(irBuffer) = BUFFER_SIZE
    /\ Len(srcRead) = MEASUREMENT_SAMPLES
    /\ \A k \in 1..(BUFFER_SIZE - MEASUREMENT_SAMPLES) :
         /\ redBuffer[k] = oldRed[k + MEASUREMENT_SAMPLES]
         /\ irBuffer[k] = oldIr[k + MEASUREMENT_SAMPLES]
    /\ \A k \in 1..MEASUREMENT_SAMPLES :
         /\ redBuffer[BUFFER_SIZE - MEASUREMENT_SAMPLES + k] = srcRead[k].red
         /\ irBuffer[BUFFER_SIZE - MEASUREMENT_SAMPLES + k] = srcRead[k].ir

\* a refresh of a buffer whose four quarters differ
C8_Witness ==
  /\ TickFrom({"DISPLAYING_RESULTS"})
  /\ oldRed[BUFFER_SIZE] = AtThreshold.red
  /\ oldRed[BUFFER_SIZE - MEASUREMENT_SAMPLES] = Present.red
  /\ redBuffer[BUFFER_SIZE] = RedLow.red

\* C9: at most one state change per pass, and every change is one of the six
\* listed: Error is never left, DisplayingResults never returns to Measuring.
Transitions ==
  { <<"INITIALIZING", "WAITING_FINGER">>, <<"INITIALIZING", "ERROR">>,
    <<"WAITING_FINGER", "MEASURING">>, <<"MEASURING", "WAITING_FINGER">>,
    <<"MEASURING", "DISPLAYING_RESULTS">>,
    <<"DISPLAYING_RESULTS", "WAITING_FINGER">> }

C9_TransitionRelation ==
  [][ /\ Len(changes') <= 1
      /\ \A i \in 1..Len(changes') : changes'[i] \in Transitions
      /\ currentState' # currentState
           => changes' = << <<currentState, currentState'>> >>
      /\ currentState' = currentState => changes' = <<>> ]_vars

C9_Witness ==
  /\ TickFrom({"DISPLAYING_RESULTS"})
  /\ currentState = "DISPLAYING_RESULTS"
  /\ validSPO2 = 0

\* C10: a pass that begins in Measuring and finds the finger present ends in
\* DisplayingResults iff both flags are set, spo2 > 70 and 30 < heartRate <
\* 200; otherwise the state stays Measuring.
C10_Acceptance ==
  ( /\ TickFrom({"MEASURING"})
    /\ redBuffer[BUFFER_SIZE] > FINGER_THRESHOLD
    /\ irBuffer[BUFFER_SIZE] > FINGER_THRESHOLD )
  => IF /\ validHeartRate # 0 /\ validSPO2 # 0
        /\ spo2 > 70 /\ 30 < heartRate /\ heartRate < 200
     THEN currentState = "DISPLAYING_RESULTS"
     ELSE currentState = "MEASURING"

C10_Witness ==
  /\ TickFrom({"MEASURING"})
  /\ redBuffer[BUFFER_SIZE] > FINGER_THRESHOLD
  /\ irBuffer[BUFFER_SIZE] > FINGER_THRESHOLD
  /\ validSPO2 # 0 /\ validHeartRate # 0
  /\ spo2 = 70
  /\ currentState = "MEASURING"

\* C11: after setup(), if the display or the sensor failed to initialize the
\* state is Error, and the state is WaitingForFinger only if both
\* initialized.
C11_SetupFailure ==
  op = "setup" =>
    /\ (~probed[1].lcd \/ ~probed[1].sensor) => currentState = "ERROR"
    /\ currentState = "WAITING_FINGER" => (probed[1].lcd /\ probed[1].sensor)

\* The part of C11 the code keeps: a sensor that is not found ends setup()
\* in Error with systemReady false.
C11_SensorFailure ==
  (op = "setup" /\ ~probed[1].sensor)
  => (currentState = "ERROR" /\ ~systemReady)

\* C12: on every pass of loop() in Error that begins more than 2000 ms after
\* the last render, the error message is rendered again.
C12_ErrorReRender ==
  ( /\ op = "halted" /\ tickStart = "ERROR"
    /\ prev.render # -1
    /\ began - prev.render > ERROR_DISPLAY_INTERVAL )
  => \E i \in 1..Len(renders) : renders[i].screen = "Error"

\* What the code does instead: a pass of loop() in Error renders nothing and
\* leaves the state, the flag and lastDisplayUpdate as they are.
C12_ErrorIsSilent ==
  (op = "halted" /\ tickStart = "ERROR")
  => /\ renders = <<>> /\ steps = <<>>
     /\ currentState = "ERROR" /\ ~systemReady
     /\ lastDisplayUpdate = 0

\* The level the StatusIndicator is specified to show in state s at time t.
LedLevel(s, t) ==
  CASE s = "WAITING_FINGER" -> IF (t % 1000) < 500 THEN 1 ELSE 0
    [] s = "MEASURING" -> IF (t % 200) < 100 THEN 1 ELSE 0
    [] s = "DISPLAYING_RESULTS" -> 1
    [] s = "ERROR" -> IF (t % 100) < 50 THEN 1 ELSE 0

\* C13: every pass of loop() writes the status LED, and the level written is
\* LedLevel of the state at the end of the pass and the time of the write.
C13_StatusIndicator ==
  op \in {"tick", "halted"} =>
    /\ ledTime # -1
    /\ statusLedPin = LedLevel(currentState, ledTime)

\* The part of C13 the code keeps: the three states loop() reaches the
\* switch in.
C13_ReadyStates ==
  op = "tick" =>
    /\ ledTime = now - LOOP_DELAY
    /\ statusLedPin = LedLevel(currentState, ledTime)

\* C14: an alert evaluation that finds spo2Valid false or no finger detected
\* drives the buzzer for no pattern (no SpO2 pattern, no heart-rate tone,
\* no time spent) and leaves the cooldown timestamp lastAlertTime unchanged.
C14_AlertGating ==
  (alertEval # <<>> /\ (validSPO2 = 0 \/ ~fingerDetected))
  => /\ tones = <<>>
     /\ buzzerPin = 0
     /\ lastAlertTime = alertEval[1].last
     /\ now = alertEval[1].t + LOOP_DELAY

\* an invalid SpO2 with a heart rate out of range, the cooldown being over
C14_Witness ==
  /\ alertEval # <<>>
  /\ validSPO2 = 0 /\ HrOutOfRange
  /\ alertEval[1].t - alertEval[1].last >= ALERT_COOLDOWN

\* The buzzer levels of a pattern: on for 1000 ms; on 200, off 300, on 200.
OneLongTone == << [level |-> 1, ms |-> 1000], [level |-> 0, ms |-> 0] >>
TwoShortTones ==
  << [level |-> 1, ms |-> 200], [level |-> 0, ms |-> 300],
     [level |-> 1, ms |-> 200], [level |-> 0, ms |-> 0] >>

WavesOf(log) == [i \in 1..Len(log) |-> log[i].wave]

\* C15: an alert evaluation with spo2Valid, a finger detected and at least
\* 3000 ms since lastAlertTime sounds, by the value of spo2: one 1000 ms tone
\* if 0 < spo2 <= 80; two 200 ms tones 300 ms apart if 80 < spo2 < 90; no
\* SpO2 pattern if spo2 >= 90; never more than one SpO2 pattern.
C15_PatternSelection ==
  ( /\ alertEval # <<>> /\ validSPO2 # 0 /\ fingerDetected
    /\ alertEval[1].t - alertEval[1].last >= ALERT_COOLDOWN )
  => LET sp == Only(tones, Spo2Kinds) IN
     /\ Len(sp) <= 1
     /\ \A i \in 1..Len(sp) : sp[i].t = alertEval[1].t
     /\ (0 < spo2 /\ spo2 <= 80) => WavesOf(sp) = << OneLongTone >>
     /\ (80 < spo2 /\ spo2 < 90) => WavesOf(sp) = << TwoShortTones >>
     /\ spo2 >= 90 => sp = <<>>

\* the long tone at spo2 = 80, the bound of the two patterns
C15_Witness ==
  /\ alertEval # <<>> /\ validSPO2 # 0 /\ fingerDetected
  /\ spo2 = 80
  /\ WavesOf(tones) = << OneLongTone >>

\* C16: a pass in DisplayingResults whose newest sample is below the
\* threshold ends in WaitingForFinger, and while the finger stays away the
\* prompt is rendered at most 1000 ms after that change: no pass ends later
\* than that with the prompt still to come.
C16_PromptAfterLoss ==
  /\ ( /\ TickFrom({"DISPLAYING_RESULTS"})
       /\ \/ irBuffer[BUFFER_SIZE] < FINGER_THRESHOLD
          \/ redBuffer[BUFFER_SIZE] < FINGER_THRESHOLD )
     => (currentState = "WAITING_FINGER" /\ lost.at = ledTime)
  /\ (lost.at # -1 /\ ~lost.shown)
     => (currentState = "WAITING_FINGER"
         /\ now - lost.at <= DISPLAY_UPDATE_INTERVAL)
  /\ (lost.at # -1 /\ lost.shown)
     => \E i \in 1..Len(renders) :
          /\ renders[i].screen = "Prompt"
          /\ renders[i].t - lost.at <= DISPLAY_UPDATE_INTERVAL

\* the prompt comes in the eleventh pass after the loss
C16_Witness ==
  /\ lost.at # -1 /\ lost.shown
  /\ idle = 11
  /\ renders = << [screen |-> "Prompt", t |-> lost.at + 550] >>

\* C17: if the SampleSource reports a sample available after every advance,
\* a call of collectInitialData() returns, having captured exactly 100
\* pairs, and a call of updateDataBuffers() returns, having captured exactly
\* 25 pairs; a call never captures more.
C17_AcquisitionTerminates ==
  /\ [](acq.got <= AcqWanted(acq.fn) \/ acq.fn = "none")
  /\ (acq.pc = "loop")
       ~> (acq.pc = "done" /\ acq.got = AcqWanted(acq.fn))

\* a refresh that has returned after a fill, with the buffers full of
\* captured pairs
C17_Witness ==
  /\ acq.pc = "done" /\ acq.fn = "slide"
  /\ acq.got = MEASUREMENT_SAMPLES
  /\ redBuffer[1] = AcqPair(MEASUREMENT_SAMPLES + 1).red
  /\ redBuffer[BUFFER_SIZE] = AcqPair(MEASUREMENT_SAMPLES).red

\* C18: the pass that moves WaitingForFinger -> Measuring captures all 100
\* entries of the buffer, and after every pass that ends in Measuring or
\* DisplayingResults the buffer holds 100 pairs, in the order of their
\* capture, none captured before the last finger detection.
C18_SessionFreshness ==
  /\ (op = "tick" /\ changes = << <<"WAITING_FINGER", "MEASURING">> >>)
     => /\ captured = session.at + BUFFER_SIZE
        /\ \A k \in 1..BUFFER_SIZE : stamp[k] = session.at + k
  /\ currentState \in Sensing
     => /\ bufferLength = BUFFER_SIZE
        /\ Len(redBuffer) = BUFFER_SIZE /\ Len(irBuffer) = BUFFER_SIZE
        /\ \A k \in 1..BUFFER_SIZE : stamp[k] > session.at
        /\ \A k \in 1..(BUFFER_SIZE - 1) : stamp[k] < stamp[k + 1]

\* the second detection of a run: the buffer held the pairs of the first
C18_Witness ==
  /\ op = "tick" /\ changes = << <<"WAITING_FINGER", "MEASURING">> >>
  /\ session.n = 2
  /\ session.at >= BUFFER_SIZE + MEASUREMENT_SAMPLES
  /\ stamp[1] = session.at + 1

\* C19: the buzzer is driven, and the alerts are evaluated, only in passes
\* that begin and end in DisplayingResults; setup(), the passes in Error and
\* the passes that begin in WaitingForFinger or Measuring drive nothing, so
\* a valid spo2 in 1..70 estimated in Measuring sounds no tone (and keeps
\* the state Measuring while the finger is present).
C19_AlertsOnlyDisplaying ==
  /\ (tones # <<>> \/ alertEval # <<>>)
     => (TickFrom({"DISPLAYING_RESULTS"})
         /\ currentState = "DISPLAYING_RESULTS")
  /\ (op \in {"setup", "halted"}
      \/ TickFrom({"WAITING_FINGER", "MEASURING", "ERROR"}))
     => (tones = <<>> /\ alertEval = <<>> /\ buzzerPin = 0)
  /\ ( /\ TickFrom({"MEASURING"}) /\ ~FingerRemoved(Cur)
       /\ validSPO2 # 0 /\ 0 < spo2 /\ spo2 <= 70 )
     => (tones = <<>> /\ currentState = "MEASURING")

\* a valid spo2 = 70 with a heart rate out of range, estimated in Measuring
C19_Witness ==
  /\ TickFrom({"MEASURING"})
  /\ validSPO2 # 0 /\ spo2 = 70 /\ HrOutOfRange
  /\ currentState = "MEASURING"
  /\ tones = <<>>

\* C20: after setup() and after every pass of loop(), in every state, the
\* buzzer pin is low, and every pattern that was sounded ended with the pin
\* set low.
C20_BuzzerOff ==
  op # "none" =>
    /\ buzzerPin = 0
    /\ \A i \in 1..Len(tones) :
         tones[i].wave[Len(tones[i].wave)].level = 0

\* a pass that sounded an SpO2 pattern and the heart-rate tone
C20_Witness ==
  /\ op = "tick"
  /\ Len(tones) = 2
  /\ tones[2].kind = "hr"
  /\ buzzerPin = 0

====
